---- MODULE Spec2Model ----
(***************************************************************************)
(* Storage fee manager (src/storage_fee_manager.py).                       *)
(*                                                                         *)
(* One StorageManager instance: the file registry, the current occupancy   *)
(* of every storage unit, the monthly ledger, the month-close snapshots,   *)
(* the settled months and the end-of-month seed table.  One action per     *)
(* handler (handle_upload, handle_delete, handle_update, handle_calc).     *)
(*                                                                         *)
(* Month keys "YYYY-MM" are encoded as the integer YYYY*100+MM, which      *)
(* orders and distinguishes keys exactly as the zero-padded string does.   *)
(* Decimal amounts are kept exactly as an integer part and a number of     *)
(* ten-thousandths (all rates of the fee table have at most 4 decimals).   *)
(***************************************************************************)
EXTENDS Integers, Sequences, FiniteSets, TLC

VARIABLES is_free_plan, files, current_storage_size, monthly_stats,
          calc_reported_sizes_snapshot, update_fee_settled_for_month,
          last_month_eom_storage_sizes, clock, nacc

\* clock is the timestamp of the latest command of a command stream that is
\* fed in time order (SpecMono; it stays 0 when commands come in any order),
\* nacc counts the accepted upload/delete/update calls.
vars == <<is_free_plan, files, current_storage_size, monthly_stats,
          calc_reported_sizes_snapshot, update_fee_settled_for_month,
          last_month_eom_storage_sizes, clock, nacc>>

----------------------------------------------------------------------------
(* Bounds of the model *)

\* number of accepted upload/delete/update calls explored
MaxOps == 2

\* file names, file sizes (KB) and timestamps fed to the handlers
FileNames == {"f1", "f2"}
SizesKB == {500, 95200000}
Timestamps == {[year |-> 2023, month |-> 12, day |-> 31],
               [year |-> 2024, month |-> 1, day |-> 1]}

----------------------------------------------------------------------------
(* Fee schedule *)

KB_TO_MB_DIVISOR == 1000
FREE_PLAN_LIMIT == 1000
DEC_SCALE == 10000

\* rates in ten-thousandths per MB: 0.01 = 100, 0.0005 = 5, ...
STORAGE_UNITS ==
  [storage_A1 |-> [type |-> "A", store_fee_per_mb |-> 100, update_fee_per_mb |-> 5,
                   is_free_plan_allowed |-> TRUE],
   storage_A2 |-> [type |-> "A", store_fee_per_mb |-> 10, update_fee_per_mb |-> 100,
                   is_free_plan_allowed |-> TRUE],
   storage_B1 |-> [type |-> "B", store_fee_per_mb |-> 100, update_fee_per_mb |-> 10,
                   is_free_plan_allowed |-> FALSE],
   storage_B2 |-> [type |-> "B", store_fee_per_mb |-> 1, update_fee_per_mb |-> 5000,
                   is_free_plan_allowed |-> FALSE]]

UnitNames == DOMAIN STORAGE_UNITS

\* iteration order of STORAGE_UNITS.items()
UnitOrder == <<"storage_A1", "storage_A2", "storage_B1", "storage_B2">>

\* storage names a command may carry: configured ones (free-plan eligible and
\* not) and an unknown one
StorageArgs == {"storage_A1", "storage_A2", "storage_B2", "storage_X"}

----------------------------------------------------------------------------
(* Arithmetic *)

Max(a, b) == IF a >= b THEN a ELSE b

\* math.ceil(kb / 1000) for kb > 0
CeilMB(kb) == (kb + KB_TO_MB_DIVISOR - 1) \div KB_TO_MB_DIVISOR

\* Decimal(mb) * rate, exact: [i |-> integer part, f |-> ten-thousandths]
DecMul(mb, rate) ==
  LET q == mb \div DEC_SCALE
      p == (mb % DEC_SCALE) * rate
  IN [i |-> q * rate + p \div DEC_SCALE, f |-> p % DEC_SCALE]

DecZero == [i |-> 0, f |-> 0]

DecAdd(a, b) ==
  LET s == a.f + b.f
  IN [i |-> a.i + b.i + s \div DEC_SCALE, f |-> s % DEC_SCALE]

\* math.ceil of a non-negative Decimal
DecCeil(a) == a.i + (IF a.f > 0 THEN 1 ELSE 0)

\* math.ceil(max(Decimal(0), a - Decimal(1000)))
UsageCeil(a) == IF a.i < FREE_PLAN_LIMIT THEN 0 ELSE DecCeil([i |-> a.i - FREE_PLAN_LIMIT, f |-> a.f])

----------------------------------------------------------------------------
(* Month keys *)

GetMonthKey(ts) == ts.year * 100 + ts.month

IsLeap(y) == (y % 4 = 0 /\ y % 100 # 0) \/ y % 400 = 0

DaysInMonth(y, m) ==
  IF m = 2 THEN (IF IsLeap(y) THEN 29 ELSE 28)
  ELSE IF m \in {4, 6, 9, 11} THEN 30 ELSE 31

\* variant: the month number lowered by one, the year never
PreviousMonthSameYear(ts) == GetMonthKey([ts EXCEPT !.month = ts.month - 1])

\* timestamp.replace(day=1, ...) - timedelta(days=1), then the month key
GetPreviousMonthKey(ts) ==
  LET prev_month_end ==
        IF ts.month = 1
        THEN [year |-> ts.year - 1, month |-> 12, day |-> DaysInMonth(ts.year - 1, 12)]
        ELSE [year |-> ts.year, month |-> ts.month - 1,
              day |-> DaysInMonth(ts.year, ts.month - 1)]
  IN GetMonthKey(prev_month_end)

\* full order of timestamps (day granularity)
Stamp(ts) == GetMonthKey(ts) * 100 + ts.day

----------------------------------------------------------------------------
(* Monthly ledger *)

MonthlyStats == [max_size |-> 0, update_kb_sum |-> 0]

\* _ensure_month_init: a month not yet present is created with every unit's
\* max_size taken from last_month_eom_storage_sizes
EnsureMonthInit(st, month_key, eom) ==
  IF month_key \in DOMAIN st THEN st
  ELSE [k \in DOMAIN st \cup {month_key} |->
          IF k = month_key
          THEN [u \in UnitNames |-> [MonthlyStats EXCEPT !.max_size = eom[u]]]
          ELSE st[k]]

----------------------------------------------------------------------------
(* Limit simulator and fee calculator *)

\* integer fee of one unit: ceil(Decimal(ceil(kb/1000)) * rate), 0 when kb <= 0
\* variant: the per-unit fee rounded down
FlooredFee(kb, rate) == IF kb > 0 THEN DecMul(CeilMB(kb), rate).i ELSE 0

IntegerFee(kb, rate) == IF kb > 0 THEN DecCeil(DecMul(CeilMB(kb), rate)) ELSE 0

\* unrounded fee of one unit: Decimal(ceil(kb/1000)) * rate, 0 when kb <= 0
\* variant: the usage fee fed with the fees already rounded per unit
RoundedDecimalFee(kb, rate) ==
  IF kb > 0 THEN [i |-> DecCeil(DecMul(CeilMB(kb), rate)), f |-> 0] ELSE DecZero

DecimalFee(kb, rate) == IF kb > 0 THEN DecMul(CeilMB(kb), rate) ELSE DecZero

RECURSIVE SumInt(_, _)
SumInt(f, n) == IF n = 0 THEN 0 ELSE f[UnitOrder[n]] + SumInt(f, n - 1)

RECURSIVE SumDec(_, _)
SumDec(f, n) == IF n = 0 THEN DecZero ELSE DecAdd(f[UnitOrder[n]], SumDec(f, n - 1))

\* variant: the simulator prices the month's traffic without the operation's
SimTotalWithoutOperationTraffic(st, month_key, op_storage_name, op_potential_max_size_kb, op_kb_for_current_op) ==
  LET current_month_data == st[month_key]
      sim_max(s) == IF s = op_storage_name THEN op_potential_max_size_kb
                    ELSE current_month_data[s].max_size
      item == [s \in UnitNames |->
                IF ~STORAGE_UNITS[s].is_free_plan_allowed THEN 0
                ELSE IntegerFee(sim_max(s), STORAGE_UNITS[s].store_fee_per_mb)
                     + IntegerFee(current_month_data[s].update_kb_sum,
                                  STORAGE_UNITS[s].update_fee_per_mb)]
  IN SumInt(item, Len(UnitOrder))

\* the sum _would_exceed_free_plan_limit compares with 1000; the month is
\* already initialised in st
SimTotal(st, month_key, op_storage_name, op_potential_max_size_kb, op_kb_for_current_op) ==
  LET current_month_data == st[month_key]
      sim_max(s) == IF s = op_storage_name THEN op_potential_max_size_kb
                    ELSE current_month_data[s].max_size
      sim_upd(s) == IF s = op_storage_name
                    THEN current_month_data[s].update_kb_sum + op_kb_for_current_op
                    ELSE current_month_data[s].update_kb_sum
      item == [s \in UnitNames |->
                IF ~STORAGE_UNITS[s].is_free_plan_allowed THEN 0
                ELSE IntegerFee(sim_max(s), STORAGE_UNITS[s].store_fee_per_mb)
                     + IntegerFee(sim_upd(s), STORAGE_UNITS[s].update_fee_per_mb)]
  IN SumInt(item, Len(UnitOrder))

\* variant: the limit itself already counts as exceeded
WouldReachFreePlanLimit(free, st, month_key, op_storage_name, op_potential_max_size_kb, op_kb_for_current_op) ==
  IF ~free THEN FALSE
  ELSE SimTotal(st, month_key, op_storage_name, op_potential_max_size_kb,
                op_kb_for_current_op) >= FREE_PLAN_LIMIT

\* variant: the limit applied whatever the plan
WouldExceedAnyPlanLimit(free, st, month_key, op_storage_name, op_potential_max_size_kb, op_kb_for_current_op) ==
  SimTotal(st, month_key, op_storage_name, op_potential_max_size_kb,
           op_kb_for_current_op) > FREE_PLAN_LIMIT

\* variant: only the storage fees are compared with the limit
WouldExceedOnStorageFees(free, st, month_key, op_storage_name, op_potential_max_size_kb, op_kb_for_current_op) ==
  IF ~free THEN FALSE
  ELSE SimTotal([st EXCEPT ![month_key] =
                   [s \in UnitNames |-> [@[s] EXCEPT !.update_kb_sum = 0]]],
                month_key, op_storage_name, op_potential_max_size_kb, 0)
         > FREE_PLAN_LIMIT

WouldExceedFreePlanLimit(free, st, month_key, op_storage_name, op_potential_max_size_kb, op_kb_for_current_op) ==
  IF ~free THEN FALSE
  ELSE SimTotal(st, month_key, op_storage_name, op_potential_max_size_kb,
                op_kb_for_current_op) > FREE_PLAN_LIMIT

\* variant: settlement ignored when the update traffic is priced
UnsettledUpdateKB(settled, month_key, update_kb_sum) == update_kb_sum

\* lines 214-216: the update traffic priced for a month, 0 once it is settled
SettledUpdateKB(settled, month_key, update_kb_sum) ==
  IF month_key \in settled THEN 0 ELSE update_kb_sum

\* _calculate_total_fees on a ledger in which the month is initialised
CalculateTotalFees(free, st, settled, month_key) ==
  LET current_month_data == st[month_key]
      checked(s) == ~free \/ STORAGE_UNITS[s].is_free_plan_allowed
      is_settled == month_key \in settled
      upd_for_calc(s) == SettledUpdateKB(settled, month_key,
                                         current_month_data[s].update_kb_sum)
      sfee == [s \in UnitNames |->
                IF checked(s)
                THEN IntegerFee(current_month_data[s].max_size, STORAGE_UNITS[s].store_fee_per_mb)
                ELSE 0]
      ufee == [s \in UnitNames |->
                IF checked(s)
                THEN IntegerFee(upd_for_calc(s), STORAGE_UNITS[s].update_fee_per_mb)
                ELSE 0]
      sdec == [s \in UnitNames |->
                IF checked(s)
                THEN DecimalFee(current_month_data[s].max_size, STORAGE_UNITS[s].store_fee_per_mb)
                ELSE DecZero]
      udec == [s \in UnitNames |->
                IF checked(s) /\ ~is_settled
                THEN DecimalFee(current_month_data[s].update_kb_sum,
                                STORAGE_UNITS[s].update_fee_per_mb)
                ELSE DecZero]
  IN [storage_fee |-> SumInt(sfee, Len(UnitOrder)),
      update_fee |-> SumInt(ufee, Len(UnitOrder)),
      usage_fee |-> UsageCeil(DecAdd(SumDec(sdec, Len(UnitOrder)),
                                     SumDec(udec, Len(UnitOrder))))]

----------------------------------------------------------------------------
(* Returned values *)

NoFees == [storage_fee |-> 0, update_fee |-> 0, usage_fee |-> 0]

\* "<OP>: <rejection text>"
Rejection(op, why) == [op |-> op, status |-> why, sizes |-> <<>>, fees |-> NoFees]

\* "<OP>: <storage_fee> <update_fee> <usage_fee>"
FeeLine(op, total_fees) == [op |-> op, status |-> "ok", sizes |-> <<>>, fees |-> total_fees]

\* "CALC: [a1 a2 b1 b2] <storage_fee> <update_fee> <usage_fee>"
CalcLine(reported_sizes, total_fees) ==
  [op |-> "CALC", status |-> "ok",
   sizes |-> [i \in 1..Len(UnitOrder) |-> reported_sizes[UnitOrder[i]]],
   fees |-> total_fees]

----------------------------------------------------------------------------
(* Steps shared by the handlers *)

\* variant: the unit is checked before the file name
UploadValidationUnitFirst(free, fls, storage_name, file_name) ==
  IF storage_name \notin DOMAIN STORAGE_UNITS THEN "invalid storage name"
  ELSE IF free /\ ~STORAGE_UNITS[storage_name].is_free_plan_allowed
       THEN "this storage location is not available on the free plan"
  ELSE IF file_name \in DOMAIN fls THEN "file already exists"
  ELSE "ok"

\* handle_upload, lines 248-252: the checks made before the month is touched
UploadValidation(free, fls, storage_name, file_name) ==
  IF file_name \in DOMAIN fls THEN "file already exists"
  ELSE IF storage_name \notin DOMAIN STORAGE_UNITS THEN "invalid storage name"
  ELSE IF free /\ ~STORAGE_UNITS[storage_name].is_free_plan_allowed
       THEN "this storage location is not available on the free plan"
  ELSE "ok"

\* variant: the file is looked up before the unit is checked
DeleteValidationFileFirst(free, fls, storage_name, file_name) ==
  IF file_name \notin DOMAIN fls THEN "file does not exist"
  ELSE IF fls[file_name].storage # storage_name THEN "file is not in the specified storage"
  ELSE IF storage_name \notin DOMAIN STORAGE_UNITS THEN "invalid storage name"
  ELSE IF free /\ ~STORAGE_UNITS[storage_name].is_free_plan_allowed
       THEN "this storage location is not available on the free plan"
  ELSE "ok"

\* handle_delete, lines 290-299
DeleteValidation(free, fls, storage_name, file_name) ==
  IF storage_name \notin DOMAIN STORAGE_UNITS THEN "invalid storage name"
  ELSE IF free /\ ~STORAGE_UNITS[storage_name].is_free_plan_allowed
       THEN "this storage location is not available on the free plan"
  ELSE IF file_name \notin DOMAIN fls THEN "file does not exist"
  ELSE IF fls[file_name].storage # storage_name THEN "file is not in the specified storage"
  ELSE "ok"

\* handle_update, lines 334-343
UpdateValidation(free, fls, storage_name, file_name) ==
  IF storage_name \notin DOMAIN STORAGE_UNITS THEN "invalid storage name"
  ELSE IF free /\ ~STORAGE_UNITS[storage_name].is_free_plan_allowed
       THEN "this storage location is not available on the free plan"
  ELSE IF file_name \notin DOMAIN fls THEN "file does not exist"
  ELSE IF fls[file_name].storage # storage_name THEN "file is not in the specified storage"
  ELSE "ok"

\* variant: max_size follows the occupancy down as well as up
TrackOccupancy(max_size, occupancy) == occupancy

\* stats_to_update.max_size = max(stats_to_update.max_size, current size)
RaiseMaxSize(max_size, occupancy) == Max(max_size, occupancy)

\* the ledger after an accepted operation on (month_key, storage_name)
CommitStats(st, month_key, storage_name, new_max_size, kb) ==
  [st EXCEPT ![month_key][storage_name] =
     [max_size |-> new_max_size, update_kb_sum |-> @.update_kb_sum + kb]]

\* variant: a delete that forgets to release the file's size
KeepOccupancy(cur, storage_name, deleted_file_size) == cur

\* self.current_storage_size[file.storage] -= deleted_file_size
DeleteOccupancy(cur, storage_name, deleted_file_size) ==
  [cur EXCEPT ![storage_name] = @ - deleted_file_size]

\* variant: every closeMonth call takes the snapshot again
RetakeSnapshot(snap, month_key, cur) ==
  [k \in DOMAIN snap \cup {month_key} |->
     IF k = month_key THEN [u \in UnitNames |-> cur[u]] ELSE snap[k]]

\* handle_calc, lines 382-388: the snapshot is taken only if none exists
TakeSnapshot(snap, month_key, cur) ==
  IF month_key \in DOMAIN snap THEN snap
  ELSE [k \in DOMAIN snap \cup {month_key} |->
          IF k = month_key THEN [u \in UnitNames |-> cur[u]] ELSE snap[k]]

\* variant: closeMonth that never marks the month
LeaveUnsettled(settled, month_key) == settled

\* self.update_fee_settled_for_month.add(month_key)
MarkSettled(settled, month_key) == settled \cup {month_key}

----------------------------------------------------------------------------
(* The handlers as functions of the manager (self): the outcome of a call  *)
(* (status), the manager it leaves behind, and the line it returns.        *)

\* handle_upload, lines 268-273: the manager once the upload is performed
\* (st is the ledger with the month initialised)
UploadCommit(self, st, month_key, storage_name, file_name, size) ==
  LET new_size == self.current_storage_size[storage_name] + size
  IN [self EXCEPT
        !.files = [n \in DOMAIN self.files \cup {file_name} |->
                     IF n = file_name THEN [size |-> size, storage |-> storage_name]
                     ELSE self.files[n]],
        !.current_storage_size = [self.current_storage_size EXCEPT ![storage_name] = new_size],
        !.monthly_stats = CommitStats(st, month_key, storage_name,
                            RaiseMaxSize(st[month_key][storage_name].max_size, new_size),
                            size)]

UploadStep(self, timestamp, storage_name, file_name, size) ==
  LET v == UploadValidation(self.is_free_plan, self.files, storage_name, file_name)
  IN IF v # "ok"
     THEN [status |-> v, self |-> self]
     ELSE
       LET month_key == GetMonthKey(timestamp)
           st == EnsureMonthInit(self.monthly_stats, month_key,
                                 self.last_month_eom_storage_sizes)
           simulated == self.current_storage_size[storage_name] + size
           potential_max_size_kb == Max(st[month_key][storage_name].max_size, simulated)
       IN IF self.is_free_plan
             /\ WouldExceedFreePlanLimit(self.is_free_plan, st, month_key, storage_name,
                                         potential_max_size_kb, size)
          THEN [status |-> "free plan fee limit exceeded",
                self |-> [self EXCEPT !.monthly_stats = st]]
          ELSE [status |-> "ok",
                self |-> UploadCommit(self, st, month_key, storage_name, file_name, size)]

\* variant: a delete that lowers the watermark to the occupancy left
DeleteCommitLoweringMaxSize(self, st, month_key, storage_name, file_name) ==
  LET deleted_file_size == self.files[file_name].size
      left == self.current_storage_size[storage_name] - deleted_file_size
  IN [self EXCEPT
        !.files = [n \in DOMAIN self.files \ {file_name} |-> self.files[n]],
        !.current_storage_size = [self.current_storage_size EXCEPT
                                    ![storage_name] = left],
        !.monthly_stats = CommitStats(st, month_key, storage_name, left,
                                      deleted_file_size)]

\* handle_delete, lines 313-317
DeleteCommit(self, st, month_key, storage_name, file_name) ==
  LET deleted_file_size == self.files[file_name].size
  IN [self EXCEPT
        !.files = [n \in DOMAIN self.files \ {file_name} |-> self.files[n]],
        !.current_storage_size = DeleteOccupancy(self.current_storage_size,
                                   self.files[file_name].storage, deleted_file_size),
        !.monthly_stats = CommitStats(st, month_key, storage_name,
                            st[month_key][storage_name].max_size, deleted_file_size)]

DeleteStep(self, timestamp, storage_name, file_name) ==
  LET month_key == GetMonthKey(timestamp)
      st == EnsureMonthInit(self.monthly_stats, month_key,
                            self.last_month_eom_storage_sizes)
      v == DeleteValidation(self.is_free_plan, self.files, storage_name, file_name)
  IN IF v # "ok"
     THEN [status |-> v, self |-> [self EXCEPT !.monthly_stats = st]]
     ELSE
       LET deleted_file_size == self.files[file_name].size
           potential_max_size_kb == st[month_key][storage_name].max_size
       IN IF self.is_free_plan
             /\ WouldExceedFreePlanLimit(self.is_free_plan, st, month_key, storage_name,
                                         potential_max_size_kb, deleted_file_size)
          THEN [status |-> "free plan fee limit exceeded",
                self |-> [self EXCEPT !.monthly_stats = st]]
          ELSE [status |-> "ok",
                self |-> DeleteCommit(self, st, month_key, storage_name, file_name)]

\* variant: an update that counts only the change of size as traffic
UpdateCommitDeltaOnly(self, st, month_key, storage_name, file_name, new_size) ==
  LET original_size == self.files[file_name].size
      new_occupancy == self.current_storage_size[storage_name]
                         + (new_size - original_size)
  IN [self EXCEPT
        !.files = [self.files EXCEPT ![file_name].size = new_size],
        !.current_storage_size = [self.current_storage_size EXCEPT
                                    ![storage_name] = new_occupancy],
        !.monthly_stats = CommitStats(st, month_key, storage_name,
                            RaiseMaxSize(st[month_key][storage_name].max_size,
                                         new_occupancy),
                            Max(new_size - original_size,
                                original_size - new_size))]

\* handle_update, lines 359-363
UpdateCommit(self, st, month_key, storage_name, file_name, new_size) ==
  LET original_size == self.files[file_name].size
      new_occupancy == self.current_storage_size[storage_name]
                         + (new_size - original_size)
  IN [self EXCEPT
        !.files = [self.files EXCEPT ![file_name].size = new_size],
        !.current_storage_size = [self.current_storage_size EXCEPT
                                    ![storage_name] = new_occupancy],
        !.monthly_stats = CommitStats(st, month_key, storage_name,
                            RaiseMaxSize(st[month_key][storage_name].max_size,
                                         new_occupancy),
                            original_size + new_size)]

UpdateStep(self, timestamp, storage_name, file_name, new_size) ==
  LET month_key == GetMonthKey(timestamp)
      st == EnsureMonthInit(self.monthly_stats, month_key,
                            self.last_month_eom_storage_sizes)
      v == UpdateValidation(self.is_free_plan, self.files, storage_name, file_name)
  IN IF v # "ok"
     THEN [status |-> v, self |-> [self EXCEPT !.monthly_stats = st]]
     ELSE
       LET original_size == self.files[file_name].size
           simulated == self.current_storage_size[storage_name]
                          + (new_size - original_size)
           potential_max_size_kb == Max(st[month_key][storage_name].max_size, simulated)
       IN IF self.is_free_plan
             /\ WouldExceedFreePlanLimit(self.is_free_plan, st, month_key, storage_name,
                                         potential_max_size_kb, original_size + new_size)
          THEN [status |-> "free plan fee limit exceeded",
                self |-> [self EXCEPT !.monthly_stats = st]]
          ELSE [status |-> "ok",
                self |-> UpdateCommit(self, st, month_key, storage_name, file_name,
                                      new_size)]

\* handle_calc: the month is initialised by _calculate_total_fees, the
\* snapshot and the end-of-month sizes are written on the first call for the
\* month, and the month is marked settled
CalcStep(self, timestamp) ==
  LET month_key == GetPreviousMonthKey(timestamp)
      first == month_key \notin DOMAIN self.calc_reported_sizes_snapshot
  IN [status |-> "ok",
      self |-> [self EXCEPT
        !.monthly_stats = EnsureMonthInit(self.monthly_stats, month_key,
                                          self.last_month_eom_storage_sizes),
        !.calc_reported_sizes_snapshot =
           TakeSnapshot(self.calc_reported_sizes_snapshot, month_key,
                        self.current_storage_size),
        !.last_month_eom_storage_sizes =
           IF first THEN [u \in UnitNames |-> self.current_storage_size[u]]
           ELSE self.last_month_eom_storage_sizes,
        !.update_fee_settled_for_month =
           MarkSettled(self.update_fee_settled_for_month, month_key)]]

\* the fee line of an accepted upload, delete or update, else its rejection
Answer(op, r, month_key) ==
  IF r.status = "ok"
  THEN FeeLine(op, CalculateTotalFees(r.self.is_free_plan, r.self.monthly_stats,
                                      r.self.update_fee_settled_for_month, month_key))
  ELSE Rejection(op, r.status)

\* the line handle_upload returns
UploadReturn(self, timestamp, storage_name, file_name, size) ==
  Answer("UPLOAD", UploadStep(self, timestamp, storage_name, file_name, size),
         GetMonthKey(timestamp))

\* the line handle_delete returns
DeleteReturn(self, timestamp, storage_name, file_name) ==
  Answer("DELETE", DeleteStep(self, timestamp, storage_name, file_name),
         GetMonthKey(timestamp))

\* the line handle_update returns
UpdateReturn(self, timestamp, storage_name, file_name, new_size) ==
  Answer("UPDATE", UpdateStep(self, timestamp, storage_name, file_name, new_size),
         GetMonthKey(timestamp))

\* the line handle_calc returns: the fees are those of the month before it
\* is added to update_fee_settled_for_month
CalcReturn(self, timestamp) ==
  LET month_key == GetPreviousMonthKey(timestamp)
      after == CalcStep(self, timestamp).self
  IN CalcLine(after.calc_reported_sizes_snapshot[month_key],
              CalculateTotalFees(self.is_free_plan, after.monthly_stats,
                                 self.update_fee_settled_for_month, month_key))

----------------------------------------------------------------------------
(* Commands: process_command routes a parsed line to its handler *)

UploadCommands ==
  [op : {"UPLOAD"}, timestamp : Timestamps, storage_name : StorageArgs,
   file_name : FileNames, size : SizesKB]

DeleteCommands ==
  [op : {"DELETE"}, timestamp : Timestamps, storage_name : StorageArgs,
   file_name : FileNames]

UpdateCommands ==
  [op : {"UPDATE"}, timestamp : Timestamps, storage_name : StorageArgs,
   file_name : FileNames, size : SizesKB]

CalcCommands == [op : {"CALC"}, timestamp : Timestamps]

Commands == UploadCommands \cup DeleteCommands \cup UpdateCommands \cup CalcCommands

\* outcome and next manager of a command
Process(self, c) ==
  CASE c.op = "UPLOAD" -> UploadStep(self, c.timestamp, c.storage_name, c.file_name, c.size)
    [] c.op = "DELETE" -> DeleteStep(self, c.timestamp, c.storage_name, c.file_name)
    [] c.op = "UPDATE" -> UpdateStep(self, c.timestamp, c.storage_name, c.file_name, c.size)
    [] c.op = "CALC" -> CalcStep(self, c.timestamp)

\* the line process_command returns
Reply(self, c) ==
  CASE c.op = "UPLOAD" -> UploadReturn(self, c.timestamp, c.storage_name, c.file_name, c.size)
    [] c.op = "DELETE" -> DeleteReturn(self, c.timestamp, c.storage_name, c.file_name)
    [] c.op = "UPDATE" -> UpdateReturn(self, c.timestamp, c.storage_name, c.file_name, c.size)
    [] c.op = "CALC" -> CalcReturn(self, c.timestamp)

\* the month a command reads and writes
CommandMonth(c) ==
  IF c.op = "CALC" THEN GetPreviousMonthKey(c.timestamp) ELSE GetMonthKey(c.timestamp)

----------------------------------------------------------------------------
(* The state machine *)

\* the manager of the current state
Self ==
  [is_free_plan |-> is_free_plan,
   files |-> files,
   current_storage_size |-> current_storage_size,
   monthly_stats |-> monthly_stats,
   calc_reported_sizes_snapshot |-> calc_reported_sizes_snapshot,
   update_fee_settled_for_month |-> update_fee_settled_for_month,
   last_month_eom_storage_sizes |-> last_month_eom_storage_sizes]

Init ==
  /\ is_free_plan \in BOOLEAN
  /\ files = [n \in {} |-> 0]
  /\ current_storage_size = [u \in UnitNames |-> 0]
  /\ monthly_stats = [k \in {} |-> 0]
  /\ calc_reported_sizes_snapshot = [k \in {} |-> 0]
  /\ update_fee_settled_for_month = {}
  /\ last_month_eom_storage_sizes = [u \in UnitNames |-> 0]
  /\ clock = 0
  /\ nacc = 0

Become(self) ==
  /\ is_free_plan' = self.is_free_plan
  /\ files' = self.files
  /\ current_storage_size' = self.current_storage_size
  /\ monthly_stats' = self.monthly_stats
  /\ calc_reported_sizes_snapshot' = self.calc_reported_sizes_snapshot
  /\ update_fee_settled_for_month' = self.update_fee_settled_for_month
  /\ last_month_eom_storage_sizes' = self.last_month_eom_storage_sizes

\* an accepted call is explored while fewer than MaxOps calls were accepted
Mutate(r) ==
  /\ r.status = "ok" => nacc < MaxOps
  /\ Become(r.self)
  /\ nacc' = IF r.status = "ok" THEN nacc + 1 ELSE nacc

handle_upload(timestamp, storage_name, file_name, size) ==
  Mutate(UploadStep(Self, timestamp, storage_name, file_name, size))

handle_delete(timestamp, storage_name, file_name) ==
  Mutate(DeleteStep(Self, timestamp, storage_name, file_name))

handle_update(timestamp, storage_name, file_name, new_size) ==
  Mutate(UpdateStep(Self, timestamp, storage_name, file_name, new_size))

handle_calc(timestamp) ==
  /\ Become(CalcStep(Self, timestamp).self)
  /\ UNCHANGED nacc

\* one line of the command stream
Command(ts) ==
  \/ \E sn \in StorageArgs, fn \in FileNames, size \in SizesKB :
       handle_upload(ts, sn, fn, size)
  \/ \E sn \in StorageArgs, fn \in FileNames : handle_delete(ts, sn, fn)
  \/ \E sn \in StorageArgs, fn \in FileNames, size \in SizesKB :
       handle_update(ts, sn, fn, size)
  \/ handle_calc(ts)

\* commands arriving with any timestamps
Next == \E ts \in Timestamps : Command(ts) /\ UNCHANGED clock

\* commands arriving in time order
NextMono ==
  \E ts \in Timestamps : Stamp(ts) >= clock /\ clock' = Stamp(ts) /\ Command(ts)

Spec == Init /\ [][Next]_vars

SpecMono == Init /\ [][NextMono]_vars

\* A command stream that exercises the fee arithmetic: sizes that are not
\* whole MB, fees with a fractional part, totals just over the limit; every
\* configured unit is named, all operations fall in one month and closeMonth
\* closes that month.
FeeSizesKB == {1, 1500, 2001000}
FeeStamp == [year |-> 2023, month |-> 12, day |-> 31]
FeeCloseStamp == [year |-> 2024, month |-> 1, day |-> 1]

FeeCommands ==
  [op : {"UPLOAD", "UPDATE"}, timestamp : {FeeStamp}, storage_name : UnitNames,
   file_name : FileNames, size : FeeSizesKB]
    \cup [op : {"DELETE"}, timestamp : {FeeStamp}, storage_name : UnitNames,
          file_name : FileNames]
    \cup [op : {"CALC"}, timestamp : {FeeCloseStamp}]

NextFees ==
  /\ UNCHANGED clock
  /\ \/ \E sn \in UnitNames, fn \in FileNames, size \in FeeSizesKB :
          handle_upload(FeeStamp, sn, fn, size)
     \/ \E sn \in UnitNames, fn \in FileNames : handle_delete(FeeStamp, sn, fn)
     \/ \E sn \in UnitNames, fn \in FileNames, size \in FeeSizesKB :
          handle_update(FeeStamp, sn, fn, size)
     \/ handle_calc(FeeCloseStamp)

SpecFees == Init /\ [][NextFees]_vars

\* A stream of closeMonth calls with timestamps on the first and the last day
\* of every month of two years (one of them a leap year); at most MaxClosed
\* months are closed.
MaxClosed == 2

KeyTimestamps ==
  {ts \in [year : {2023, 2024}, month : 1..12, day : {1, 28, 29, 30, 31}] :
     ts.day \in {1, DaysInMonth(ts.year, ts.month)}}

NextKeys ==
  \E ts \in KeyTimestamps :
    /\ Cardinality(update_fee_settled_for_month) < MaxClosed
    /\ handle_calc(ts)
    /\ UNCHANGED clock

SpecKeys == Init /\ [][NextKeys]_vars

\* A longer command stream on one unit: up to MaxDeep accepted operations on
\* two files of storage_A1, in any order of timestamps.
MaxDeep == 3

DeepSizesKB == {500, 1500}

DeepCommands ==
  [op : {"UPLOAD", "UPDATE"}, timestamp : Timestamps, storage_name : {"storage_A1"},
   file_name : FileNames, size : DeepSizesKB]
    \cup [op : {"DELETE"}, timestamp : Timestamps, storage_name : {"storage_A1"},
          file_name : FileNames]
    \cup CalcCommands

NextDeep ==
  \E c \in DeepCommands :
    LET r == Process(Self, c)
        accepted == c.op # "CALC" /\ r.status = "ok"
    IN /\ accepted => nacc < MaxDeep
       /\ Become(r.self)
       /\ nacc' = IF accepted THEN nacc + 1 ELSE nacc
       /\ UNCHANGED clock

SpecDeep == Init /\ [][NextDeep]_vars

\* A command stream in time order over three months on the two free-plan
\* units, with sizes whose fees are close to the limit: closeMonth on
\* 2024-02-01 records the end-of-month sizes that seed February.
MaxSeed == 2

SeedSizesKB == {48001000, 95200000}

SeedTimestamps ==
  {[year |-> 2023, month |-> 12, day |-> 31],
   [year |-> 2024, month |-> 1, day |-> 31],
   [year |-> 2024, month |-> 2, day |-> 1]}

SeedCommands ==
  [op : {"UPLOAD", "UPDATE"}, timestamp : SeedTimestamps,
   storage_name : {"storage_A1", "storage_A2"}, file_name : FileNames,
   size : SeedSizesKB]
    \cup [op : {"DELETE"}, timestamp : SeedTimestamps,
          storage_name : {"storage_A1", "storage_A2"}, file_name : FileNames]
    \cup [op : {"CALC"}, timestamp : SeedTimestamps]

NextSeed ==
  \E c \in SeedCommands :
    LET r == Process(Self, c)
        accepted == c.op # "CALC" /\ r.status = "ok"
    IN /\ Stamp(c.timestamp) >= clock
       /\ accepted => nacc < MaxSeed
       /\ Become(r.self)
       /\ nacc' = IF accepted THEN nacc + 1 ELSE nacc
       /\ clock' = Stamp(c.timestamp)

SpecSeed == Init /\ [][NextSeed]_vars

TypeOK ==
  /\ is_free_plan \in BOOLEAN
  /\ DOMAIN files \subseteq FileNames
  /\ \A u \in UnitNames : current_storage_size[u] >= 0
  /\ nacc \in 0..MaxOps

----------------------------------------------------------------------------
(* Vocabulary of the properties *)

LIMIT_EXCEEDED == "free plan fee limit exceeded"

MutatingCommands == UploadCommands \cup DeleteCommands \cup UpdateCommands

\* sum over the free-plan units of the integer storage fee of max_size and
\* the integer update fee of the whole update_kb_sum of a month of a ledger
LedgerIntegerTotal(st, month_key) ==
  LET item == [s \in UnitNames |->
                IF STORAGE_UNITS[s].is_free_plan_allowed
                THEN IntegerFee(st[month_key][s].max_size, STORAGE_UNITS[s].store_fee_per_mb)
                     + IntegerFee(st[month_key][s].update_kb_sum,
                                  STORAGE_UNITS[s].update_fee_per_mb)
                ELSE 0]
  IN SumInt(item, Len(UnitOrder))

\* sum of the sizes of the files of a set of names registered in unit u
RECURSIVE SizeSum(_, _)
SizeSum(names, u) ==
  IF names = {} THEN 0
  ELSE LET n == CHOOSE x \in names : TRUE
       IN (IF files[n].storage = u THEN files[n].size ELSE 0) + SizeSum(names \ {n}, u)

----------------------------------------------------------------------------
(* C1: a rejected upload, delete or update leaves the file registry, the   *)
(* occupancy of every unit and the monthly ledger (materialized months and *)
(* their max_size and update_kb_sum) exactly as they were.                 *)

C1_RejectionLeavesStateUnchanged ==
  [][\A c \in MutatingCommands :
       (Process(Self, c).status # "ok" /\ Become(Process(Self, c).self))
         => UNCHANGED <<files, current_storage_size, monthly_stats>>]_vars

----------------------------------------------------------------------------
(* C2: two closeMonth calls resolving to the same month return identical   *)
(* results, whatever happens between them.                                 *)

\* the managers one command away from the current one
Successors == {Process(Self, c).self : c \in Commands}

\* C2 as claimed: from the first closeMonth call for a month on, the line a
\* closeMonth call for that month returns never changes: a call repeated at
\* once returns the same line, and once the month is closed no command
\* changes the line.
C2_CloseMonthIdempotent ==
  \A ts \in Timestamps :
    LET a == CalcReturn(Self, ts)
    IN /\ CalcReturn(CalcStep(Self, ts).self, ts) = a
       /\ GetPreviousMonthKey(ts) \in update_fee_settled_for_month
            => \A next \in Successors : CalcReturn(next, ts) = a

\* the watermarks closeMonth prices for a month
Watermarks(self, month_key) ==
  [u \in UnitNames |->
     EnsureMonthInit(self.monthly_stats, month_key,
                     self.last_month_eom_storage_sizes)[month_key][u].max_size]

\* C2 as amended: two closeMonth calls for a month return the same four unit
\* sizes, and every call after the first reports update_fee = 0; the
\* storage_fee of the first and the second call is the same, and two calls
\* that both come after the first return the same line provided no
\* operation between them raised a watermark of the month.
C2_CloseMonthRepeatable ==
  [](\A ts \in Timestamps :
       LET month_key == GetPreviousMonthKey(ts)
           a == CalcReturn(Self, ts)
           again == CalcReturn(CalcStep(Self, ts).self, ts)
       IN /\ again.sizes = a.sizes
          /\ again.fees.update_fee = 0
          /\ again.fees.storage_fee = a.fees.storage_fee
          /\ month_key \in update_fee_settled_for_month
               => /\ a.fees.update_fee = 0
                  /\ \A next \in Successors :
                       LET b == CalcReturn(next, ts)
                       IN /\ b.sizes = a.sizes
                          /\ Watermarks(next, month_key) = Watermarks(Self, month_key)
                               => b = a)

\* a closed month that had update traffic and a storage fee, with the
\* occupancy moved since its snapshot: a later closeMonth call for it comes
\* after other operations
C2_Witness ==
  \E ts \in Timestamps :
    /\ GetPreviousMonthKey(ts) \in update_fee_settled_for_month
    /\ calc_reported_sizes_snapshot[GetPreviousMonthKey(ts)] # current_storage_size
    /\ CalcReturn(Self, ts).fees.storage_fee > 0
    /\ \E u \in UnitNames :
         monthly_stats[GetPreviousMonthKey(ts)][u].update_kb_sum > 0

----------------------------------------------------------------------------
(* C3: on a free-plan engine an upload that passes validation is rejected  *)
(* with the limit rejection iff the integer storage + update fees of the   *)
(* free-plan units, on the ledger as the upload would leave it, exceed     *)
(* 1000; at exactly 1000 it is accepted and committed.                     *)

C3_FreePlanAdmission ==
  is_free_plan =>
    \A c \in UploadCommands :
      UploadValidation(is_free_plan, files, c.storage_name, c.file_name) = "ok" =>
        LET month_key == GetMonthKey(c.timestamp)
            committed == UploadCommit(Self,
                           EnsureMonthInit(monthly_stats, month_key,
                                           last_month_eom_storage_sizes),
                           month_key, c.storage_name, c.file_name, c.size)
            total == LedgerIntegerTotal(committed.monthly_stats, month_key)
            r == Process(Self, c)
        IN /\ r.status = LIMIT_EXCEEDED <=> total > FREE_PLAN_LIMIT
           /\ total <= FREE_PLAN_LIMIT => (r.status = "ok" /\ r.self = committed)

\* an upload was accepted that left the month's integer fees at exactly 1000
C3_Witness ==
  /\ is_free_plan
  /\ \E n \in DOMAIN files : \E month_key \in DOMAIN monthly_stats :
       /\ monthly_stats[month_key][files[n].storage].update_kb_sum = files[n].size
       /\ LedgerIntegerTotal(monthly_stats, month_key) = FREE_PLAN_LIMIT

----------------------------------------------------------------------------
(* C4: in every reachable state the occupancy of every unit equals the sum *)
(* of the sizes of the files registered in it.                             *)

C4_Conservation ==
  \A u \in UnitNames : current_storage_size[u] = SizeSum(DOMAIN files, u)

\* a unit holds two files of different sizes
C4_Witness ==
  \E n1, n2 \in DOMAIN files :
    /\ files[n1].storage = files[n2].storage
    /\ files[n1].size < files[n2].size
    /\ current_storage_size[files[n1].storage] = files[n1].size + files[n2].size

----------------------------------------------------------------------------
(* C5: once a month's aggregate exists, the max_size and the update_kb_sum *)
(* of every unit in it never decrease.                                     *)

C5_Monotonicity ==
  [][\/ monthly_stats' = monthly_stats
     \/ \A month_key \in DOMAIN monthly_stats :
          /\ month_key \in DOMAIN monthly_stats'
          /\ \A u \in UnitNames :
               /\ monthly_stats'[month_key][u].max_size
                    >= monthly_stats[month_key][u].max_size
               /\ monthly_stats'[month_key][u].update_kb_sum
                    >= monthly_stats[month_key][u].update_kb_sum]_vars

\* a unit whose occupancy fell below the watermark of a month
C5_Witness ==
  \E month_key \in DOMAIN monthly_stats : \E u \in UnitNames :
    /\ monthly_stats[month_key][u].max_size > current_storage_size[u]
    /\ monthly_stats[month_key][u].update_kb_sum > monthly_stats[month_key][u].max_size

----------------------------------------------------------------------------
(* C6: after a closeMonth call for a month, every later fee line computed  *)
(* for it (an accepted upload, delete or update in it, or another          *)
(* closeMonth for it) reports update_fee = 0; the settlement does not      *)
(* reduce the stored update_kb_sum, and the month stays settled.           *)

\* the update_kb_sum closeMonth finds stored for a unit of a month
StoredTraffic(st, month_key, u) ==
  IF month_key \in DOMAIN st THEN st[month_key][u].update_kb_sum ELSE 0

C6_Settlement ==
  /\ [](/\ \A c \in Commands :
             CommandMonth(c) \in update_fee_settled_for_month
               => LET line == Reply(Self, c)
                  IN line.status = "ok" => line.fees.update_fee = 0
        /\ \A ts \in Timestamps :
             LET month_key == GetPreviousMonthKey(ts)
                 closed == CalcStep(Self, ts).self
             IN /\ month_key \in closed.update_fee_settled_for_month
                /\ \A u \in UnitNames :
                     StoredTraffic(closed.monthly_stats, month_key, u)
                       = StoredTraffic(monthly_stats, month_key, u))
  /\ [][update_fee_settled_for_month \subseteq update_fee_settled_for_month']_vars

\* a settled month with stored update traffic in which a delete is accepted
C6_Witness ==
  \E c \in DeleteCommands :
    /\ CommandMonth(c) \in update_fee_settled_for_month
    /\ Process(Self, c).status = "ok"
    /\ monthly_stats[CommandMonth(c)][c.storage_name].update_kb_sum > 0
    /\ Reply(Self, c).fees.storage_fee > 0

----------------------------------------------------------------------------
(* C7: with commands in time order, a month first materialized by an       *)
(* upload, delete or update gets, for every unit, the unit's occupancy at  *)
(* that moment as max_size: after the call the max_size is the larger of   *)
(* the occupancy before and after it.                                      *)

C7_SeededFromOccupancy ==
  [][\A ts \in Timestamps :
       (/\ clock' = Stamp(ts)
        /\ GetMonthKey(ts) \notin DOMAIN monthly_stats
        /\ GetMonthKey(ts) \in DOMAIN monthly_stats')
         => \A u \in UnitNames :
              monthly_stats'[GetMonthKey(ts)][u].max_size
                = Max(current_storage_size[u], current_storage_size'[u])]_vars

----------------------------------------------------------------------------
(* C8: the first closeMonth call for a month captures the occupancy of all *)
(* four units as its snapshot; the snapshot never changes afterwards and   *)
(* every later closeMonth call for the month reports exactly those sizes.  *)

C8_SnapshotOnce ==
  /\ [](\A ts \in Timestamps :
          LET month_key == GetPreviousMonthKey(ts)
              closed == CalcStep(Self, ts).self
          IN IF month_key \in DOMAIN calc_reported_sizes_snapshot
             THEN /\ closed.calc_reported_sizes_snapshot = calc_reported_sizes_snapshot
                  /\ CalcReturn(Self, ts).sizes
                       = [i \in 1..Len(UnitOrder) |->
                            calc_reported_sizes_snapshot[month_key][UnitOrder[i]]]
             ELSE /\ DOMAIN closed.calc_reported_sizes_snapshot[month_key] = UnitNames
                  /\ closed.calc_reported_sizes_snapshot[month_key] = current_storage_size
                  /\ CalcReturn(Self, ts).sizes
                       = [i \in 1..Len(UnitOrder) |-> current_storage_size[UnitOrder[i]]])
  /\ [][\A month_key \in DOMAIN calc_reported_sizes_snapshot :
          /\ month_key \in DOMAIN calc_reported_sizes_snapshot'
          /\ calc_reported_sizes_snapshot'[month_key]
               = calc_reported_sizes_snapshot[month_key]]_vars

\* a month whose snapshot differs from the occupancy of now
C8_Witness ==
  \E month_key \in DOMAIN calc_reported_sizes_snapshot : \E u \in UnitNames :
    /\ calc_reported_sizes_snapshot[month_key][u] > 0
    /\ calc_reported_sizes_snapshot[month_key][u] # current_storage_size[u]

----------------------------------------------------------------------------
(* C9: upload returns the rejection of the first failing check, in the     *)
(* order: name registered, unit unknown, unit not available on the free    *)
(* plan; only then the limit is simulated.                                 *)

C9_UploadCheckOrder ==
  \A c \in UploadCommands :
    LET status == Process(Self, c).status
        exists == c.file_name \in DOMAIN files
        known == c.storage_name \in DOMAIN STORAGE_UNITS
        barred == is_free_plan /\ known
                    /\ ~STORAGE_UNITS[c.storage_name].is_free_plan_allowed
    IN /\ exists => status = "file already exists"
       /\ (~exists /\ ~known) => status = "invalid storage name"
       /\ (~exists /\ barred) => status = "this storage location is not available on the free plan"
       /\ (~exists /\ known /\ ~barred) => status \in {"ok", LIMIT_EXCEEDED}
       /\ status = LIMIT_EXCEEDED => is_free_plan

\* uploads that break several checks at once are answered, and an upload
\* breaking none is rejected for the limit
C9_Witness ==
  /\ \E c \in UploadCommands :
       /\ c.file_name \in DOMAIN files
       /\ c.storage_name \notin DOMAIN STORAGE_UNITS
       /\ Reply(Self, c).status = "file already exists"
  /\ \E c \in UploadCommands :
       /\ c.file_name \in DOMAIN files
       /\ is_free_plan /\ c.storage_name = "storage_B2"
       /\ Reply(Self, c).status = "file already exists"
  /\ \E c \in UploadCommands : Reply(Self, c).status = LIMIT_EXCEEDED

----------------------------------------------------------------------------
(* C10: delete and update return the rejection of the first failing check, *)
(* in the order: unit unknown, unit not available on the free plan, file   *)
(* not found, file in another unit, limit exceeded; they are accepted only *)
(* when the named file is registered in the named unit.                    *)

C10_DeleteUpdateCheckOrder ==
  \A c \in DeleteCommands \cup UpdateCommands :
    LET status == Process(Self, c).status
        known == c.storage_name \in DOMAIN STORAGE_UNITS
        barred == is_free_plan /\ known
                    /\ ~STORAGE_UNITS[c.storage_name].is_free_plan_allowed
        exists == c.file_name \in DOMAIN files
        here == exists /\ files[c.file_name].storage = c.storage_name
    IN /\ ~known => status = "invalid storage name"
       /\ barred => status = "this storage location is not available on the free plan"
       /\ (known /\ ~barred /\ ~exists) => status = "file does not exist"
       /\ (known /\ ~barred /\ exists /\ ~here)
            => status = "file is not in the specified storage"
       /\ (known /\ ~barred /\ here) => status \in {"ok", LIMIT_EXCEEDED}
       /\ status = LIMIT_EXCEEDED => is_free_plan
       /\ status = "ok" => here

\* one registered file for which a delete is rejected for the limit in its
\* own unit, for the wrong unit in another, and a missing file is reported
\* on a free-plan engine
C10_Witness ==
  /\ is_free_plan
  /\ \E c \in DeleteCommands :
       /\ Reply(Self, c).status = LIMIT_EXCEEDED
       /\ \E d \in DeleteCommands :
            /\ d.file_name = c.file_name
            /\ Reply(Self, d).status = "file is not in the specified storage"
  /\ \E c \in UpdateCommands : Reply(Self, c).status = "file does not exist"
  /\ \E c \in UpdateCommands : Reply(Self, c).status = LIMIT_EXCEEDED

----------------------------------------------------------------------------
(* Vocabulary of the fee claims: the fee formulas as the specification     *)
(* words them, in plain integer arithmetic (rates in ten-thousandths).     *)

CeilDiv(a, b) == (a + b - 1) \div b

\* ceil(kb / 1000) * rate, in ten-thousandths
UnroundedFee(kb, rate) == CeilDiv(kb, KB_TO_MB_DIVISOR) * rate

\* ceil(ceil(kb / 1000) * rate)
CeiledFee(kb, rate) == CeilDiv(UnroundedFee(kb, rate), DEC_SCALE)

\* the units a fee computation considers
Considered(free, u) == ~free \/ STORAGE_UNITS[u].is_free_plan_allowed

SumOverUnits(f) ==
  f["storage_A1"] + f["storage_A2"] + f["storage_B1"] + f["storage_B2"]

----------------------------------------------------------------------------
(* C11: the reported storage fee is the sum over the considered units with *)
(* max_size > 0 of ceil(ceil(max_size/1000) * store rate), and the update  *)
(* fee reported for an unsettled month is the same sum over                *)
(* update_kb_sum with the update rate: the ceiling is taken per unit, so a *)
(* unit with a positive watermark or traffic contributes at least 1.       *)

C11_PerUnitCeiling ==
  \A c \in FeeCommands :
    LET line == Reply(Self, c)
        month_key == CommandMonth(c)
        row == Process(Self, c).self.monthly_stats[month_key]
        storage(u) == IF Considered(is_free_plan, u) /\ row[u].max_size > 0
                      THEN CeiledFee(row[u].max_size, STORAGE_UNITS[u].store_fee_per_mb)
                      ELSE 0
        update(u) == IF Considered(is_free_plan, u) /\ row[u].update_kb_sum > 0
                     THEN CeiledFee(row[u].update_kb_sum,
                                    STORAGE_UNITS[u].update_fee_per_mb)
                     ELSE 0
    IN line.status = "ok" =>
         /\ line.fees.storage_fee = SumOverUnits([u \in UnitNames |-> storage(u)])
         /\ line.fees.storage_fee
              >= Cardinality({u \in UnitNames :
                                Considered(is_free_plan, u) /\ row[u].max_size > 0})
         /\ month_key \notin update_fee_settled_for_month
              => /\ line.fees.update_fee = SumOverUnits([u \in UnitNames |-> update(u)])
                 /\ line.fees.update_fee
                      >= Cardinality({u \in UnitNames :
                                        Considered(is_free_plan, u)
                                          /\ row[u].update_kb_sum > 0})

\* an unsettled month in which two units hold watermarks (1500 KB at rate
\* 0.01, 1 KB at rate 0.001) whose unrounded fees together are below 1, and
\* closeMonth reports storage fee 2
C11_Witness ==
  \E month_key \in DOMAIN monthly_stats :
    /\ month_key \notin update_fee_settled_for_month
    /\ month_key = GetPreviousMonthKey(FeeCloseStamp)
    /\ monthly_stats[month_key]["storage_A1"].max_size = 1500
    /\ monthly_stats[month_key]["storage_A2"].max_size = 1
    /\ CalcReturn(Self, FeeCloseStamp).fees.storage_fee = 2
    /\ CalcReturn(Self, FeeCloseStamp).fees.update_fee = 2

----------------------------------------------------------------------------
(* C12: the reported usage fee is ceil(max(0, S + U - 1000)), S the sum    *)
(* over the considered units of the unrounded storage fee, U that of the   *)
(* unrounded update fee (0 when the month is settled); it is 0 whenever    *)
(* S + U is at most 1000.                                                  *)

C12_UsageFee ==
  \A c \in FeeCommands :
    LET line == Reply(Self, c)
        month_key == CommandMonth(c)
        row == Process(Self, c).self.monthly_stats[month_key]
        S(u) == IF Considered(is_free_plan, u)
                THEN UnroundedFee(row[u].max_size, STORAGE_UNITS[u].store_fee_per_mb)
                ELSE 0
        U(u) == IF Considered(is_free_plan, u)
                     /\ month_key \notin update_fee_settled_for_month
                THEN UnroundedFee(row[u].update_kb_sum,
                                  STORAGE_UNITS[u].update_fee_per_mb)
                ELSE 0
        total == SumOverUnits([u \in UnitNames |-> S(u)]) + SumOverUnits([u \in UnitNames |-> U(u)])
        limit == FREE_PLAN_LIMIT * DEC_SCALE
    IN line.status = "ok" =>
         /\ total <= limit => line.fees.usage_fee = 0
         /\ total > limit => line.fees.usage_fee = CeilDiv(total - limit, DEC_SCALE)

\* a month whose unrounded fees are 0.2001 + 1000.5: closeMonth reports
\* usage fee 1 while the rounded fees reported with it are 1 + 1001
C12_Witness ==
  LET line == CalcReturn(Self, FeeCloseStamp)
  IN /\ GetPreviousMonthKey(FeeCloseStamp) \in DOMAIN monthly_stats
     /\ line.fees.usage_fee = 1
     /\ line.fees.storage_fee + line.fees.update_fee = FREE_PLAN_LIMIT + 2

----------------------------------------------------------------------------
(* C13: on a paid engine no upload, delete or update is rejected for the   *)
(* free-plan limit or for a unit not available on the free plan, whatever  *)
(* the fee total and whichever configured unit is named, and the limit     *)
(* simulator returns false for every input.                                *)

NOT_ON_FREE_PLAN == "this storage location is not available on the free plan"

\* sizes handed to the limit simulator
SimulatorSizesKB == {0} \cup FeeSizesKB \cup SizesKB

C13_PaidPlanUnlimited ==
  ~is_free_plan =>
    /\ \A c \in FeeCommands :
         c.op # "CALC" =>
           LET status == Process(Self, c).status
               registered == c.file_name \in DOMAIN files
               here == registered /\ files[c.file_name].storage = c.storage_name
           IN /\ status \notin {LIMIT_EXCEEDED, NOT_ON_FREE_PLAN}
              /\ c.op = "UPLOAD" => (status = "ok" <=> ~registered)
              /\ c.op # "UPLOAD" => (status = "ok" <=> here)
    /\ \A ts \in {FeeStamp, FeeCloseStamp}, u \in UnitNames,
          max_size \in SimulatorSizesKB, kb \in SimulatorSizesKB :
         ~WouldExceedFreePlanLimit(is_free_plan,
            EnsureMonthInit(monthly_stats, GetMonthKey(ts),
                            last_month_eom_storage_sizes),
            GetMonthKey(ts), u, max_size, kb)

\* a paid engine holding a file in a unit closed to the free plan, whose
\* month is billed more than 1000, and on which an input is at hand for
\* which a free-plan engine's simulator answers true
C13_Witness ==
  /\ ~is_free_plan
  /\ \E n \in DOMAIN files : ~STORAGE_UNITS[files[n].storage].is_free_plan_allowed
  /\ GetMonthKey(FeeStamp) \in DOMAIN monthly_stats
  /\ LET fees == CalculateTotalFees(is_free_plan, monthly_stats,
                                    update_fee_settled_for_month, GetMonthKey(FeeStamp))
     IN fees.storage_fee + fees.update_fee > FREE_PLAN_LIMIT
  /\ WouldExceedFreePlanLimit(TRUE, monthly_stats, GetMonthKey(FeeStamp),
                              "storage_A1", 95200000, 95200000)

----------------------------------------------------------------------------
(* C14: closeMonth with a timestamp in month (y, m) reports on the month   *)
(* before it, (y, m-1) when m > 1 and (y-1, 12) when m = 1, whatever the   *)
(* day; never on the timestamp's own month.                                *)

\* the key of the calendar month before the month of ts
PrecedingMonth(ts) ==
  IF ts.month > 1 THEN ts.year * 100 + (ts.month - 1) ELSE (ts.year - 1) * 100 + 12

C14_PrecedingMonth ==
  \A ts \in KeyTimestamps :
    LET closed == CalcStep(Self, ts).self
        month_key == PrecedingMonth(ts)
    IN /\ closed.update_fee_settled_for_month
            = update_fee_settled_for_month \cup {month_key}
       /\ DOMAIN closed.monthly_stats = DOMAIN monthly_stats \cup {month_key}
       /\ DOMAIN closed.calc_reported_sizes_snapshot
            = DOMAIN calc_reported_sizes_snapshot \cup {month_key}
       /\ CalcReturn(Self, ts).sizes
            = [i \in 1..Len(UnitOrder) |->
                 closed.calc_reported_sizes_snapshot[month_key][UnitOrder[i]]]
       /\ month_key # GetMonthKey(ts)
       /\ GetMonthKey(ts) \notin update_fee_settled_for_month
            => GetMonthKey(ts) \notin closed.update_fee_settled_for_month

\* December 2022 was closed (from January 2023) and so was the leap
\* February 2024 (from March 2024)
C14_Witness ==
  update_fee_settled_for_month = {202212, 202402}

----------------------------------------------------------------------------
(* C15: immediately after every accepted upload, delete or update on a     *)
(* unit in a month, the month's max_size for the unit is at least the      *)
(* unit's occupancy.                                                       *)

C15_WatermarkCoversOccupancy ==
  \A c \in DeepCommands :
    (c.op # "CALC" /\ Process(Self, c).status = "ok") =>
      LET after == Process(Self, c).self
      IN after.monthly_stats[CommandMonth(c)][c.storage_name].max_size
           >= after.current_storage_size[c.storage_name]

----------------------------------------------------------------------------
(* C16: an accepted delete of a file of size s in unit u, timestamped in   *)
(* month M, removes the file, lowers u's occupancy by s, raises M's        *)
(* update_kb_sum of u by s, and leaves unchanged the max_size of every     *)
(* unit in every existing month, the occupancy and the traffic of every    *)
(* other unit, and every other file.                                       *)

C16_DeleteEffects ==
  [](\A c \in DeleteCommands :
       Process(Self, c).status = "ok" =>
         LET after == Process(Self, c).self
             u == c.storage_name
             s == files[c.file_name].size
             M == GetMonthKey(c.timestamp)
         IN /\ DOMAIN after.files = DOMAIN files \ {c.file_name}
            /\ \A n \in DOMAIN after.files : after.files[n] = files[n]
            /\ after.current_storage_size[u] = current_storage_size[u] - s
            /\ \A v \in UnitNames \ {u} :
                 after.current_storage_size[v] = current_storage_size[v]
            /\ DOMAIN after.monthly_stats = DOMAIN monthly_stats \cup {M}
            /\ after.monthly_stats[M][u].update_kb_sum
                 = StoredTraffic(monthly_stats, M, u) + s
            /\ \A v \in UnitNames \ {u} :
                 after.monthly_stats[M][v].update_kb_sum
                   = StoredTraffic(monthly_stats, M, v)
            /\ \A k \in DOMAIN monthly_stats : \A v \in UnitNames :
                 /\ after.monthly_stats[k][v].max_size = monthly_stats[k][v].max_size
                 /\ k # M => after.monthly_stats[k][v] = monthly_stats[k][v])

\* a delete is accepted in a month in which the unit's watermark is above
\* what the delete leaves, while another file and another month exist
C16_Witness ==
  \E c \in DeleteCommands :
    /\ Process(Self, c).status = "ok"
    /\ GetMonthKey(c.timestamp) \in DOMAIN monthly_stats
    /\ monthly_stats[GetMonthKey(c.timestamp)][c.storage_name].max_size
         >= current_storage_size[c.storage_name]
    /\ current_storage_size[c.storage_name] > 0
    /\ DOMAIN files # {c.file_name}
    /\ DOMAIN monthly_stats # {GetMonthKey(c.timestamp)}

----------------------------------------------------------------------------
(* C17: an accepted update of a file from size a to size b in unit u,      *)
(* timestamped in month M, raises M's update_kb_sum of u by a + b (also    *)
(* when b = a or b < a), changes u's occupancy by b - a, sets M's max_size *)
(* of u to the maximum of its old value and the new occupancy, sets the    *)
(* file's size to b and leaves the file in its unit.  The old values of a  *)
(* month the update creates are those it is initialised with.              *)

C17_UpdateEffects ==
  [](\A c \in UpdateCommands :
       Process(Self, c).status = "ok" =>
         LET after == Process(Self, c).self
             u == c.storage_name
             a == files[c.file_name].size
             b == c.size
             M == GetMonthKey(c.timestamp)
             old == EnsureMonthInit(monthly_stats, M, last_month_eom_storage_sizes)
         IN /\ after.monthly_stats[M][u].update_kb_sum
                 = old[M][u].update_kb_sum + a + b
            /\ after.current_storage_size[u] = current_storage_size[u] + (b - a)
            /\ after.monthly_stats[M][u].max_size
                 = Max(old[M][u].max_size, after.current_storage_size[u])
            /\ after.files[c.file_name].size = b
            /\ after.files[c.file_name].storage = files[c.file_name].storage
            /\ after.files[c.file_name].storage = u)

\* updates are accepted that keep the size and that shrink the file
C17_Witness ==
  /\ \E c \in UpdateCommands :
       /\ Process(Self, c).status = "ok"
       /\ c.size = files[c.file_name].size
  /\ \E c \in UpdateCommands :
       /\ Process(Self, c).status = "ok"
       /\ c.size < files[c.file_name].size
       /\ monthly_stats[GetMonthKey(c.timestamp)][c.storage_name].update_kb_sum > 0

----------------------------------------------------------------------------
(* C18: for every free-plan upload, delete or update that passes           *)
(* validation, the sum the limit simulator compares with 1000 is the sum   *)
(* of the per-unit integer storage and update fees of the ledger as the    *)
(* operation would commit it, priced on the month's whole update_kb_sum    *)
(* whether or not the month is settled: it is storage_fee + update_fee of  *)
(* the fees reported after the commit when the month is unsettled, and in  *)
(* a settled month it is storage_fee plus the fee of the traffic that the  *)
(* reported update_fee leaves out.                                         *)

\* the ledger a handler hands to the simulator: the command's month is
\* initialised before the call
LedgerAtCall(c) ==
  EnsureMonthInit(monthly_stats, GetMonthKey(c.timestamp), last_month_eom_storage_sizes)

\* op_kb_for_current_op as the handlers pass it
OpKB(c) ==
  CASE c.op = "UPLOAD" -> c.size
    [] c.op = "DELETE" -> files[c.file_name].size
    [] c.op = "UPDATE" -> files[c.file_name].size + c.size

\* op_potential_max_size_kb as the handlers pass it
OpPotentialMaxSizeKB(c) ==
  LET max_size == LedgerAtCall(c)[GetMonthKey(c.timestamp)][c.storage_name].max_size
      occupancy == current_storage_size[c.storage_name]
  IN CASE c.op = "UPLOAD" -> Max(max_size, occupancy + c.size)
       [] c.op = "DELETE" -> max_size
       [] c.op = "UPDATE" -> Max(max_size, occupancy + (c.size - files[c.file_name].size))

\* the sum the simulator computes for a validated command
SimulatedSum(c) ==
  SimTotal(LedgerAtCall(c), GetMonthKey(c.timestamp), c.storage_name,
           OpPotentialMaxSizeKB(c), OpKB(c))

\* the manager the command's commit would leave
Committed(c) ==
  LET st == LedgerAtCall(c)
      month_key == GetMonthKey(c.timestamp)
  IN CASE c.op = "UPLOAD" -> UploadCommit(Self, st, month_key, c.storage_name,
                                          c.file_name, c.size)
       [] c.op = "DELETE" -> DeleteCommit(Self, st, month_key, c.storage_name,
                                          c.file_name)
       [] c.op = "UPDATE" -> UpdateCommit(Self, st, month_key, c.storage_name,
                                          c.file_name, c.size)

\* the command passes the handler's validation
Validated(c) == Process(Self, c).status \in {"ok", LIMIT_EXCEEDED}

\* integer update fee of the whole update_kb_sum of a month of a ledger
FullTrafficFee(st, month_key) ==
  LET item == [s \in UnitNames |->
                IF STORAGE_UNITS[s].is_free_plan_allowed
                THEN IntegerFee(st[month_key][s].update_kb_sum,
                                STORAGE_UNITS[s].update_fee_per_mb)
                ELSE 0]
  IN SumInt(item, Len(UnitOrder))

C18_SimulatorMatchesCommit ==
  [](is_free_plan =>
       \A c \in MutatingCommands :
         Validated(c) =>
           LET month_key == GetMonthKey(c.timestamp)
               after == Committed(c)
               reported == CalculateTotalFees(is_free_plan, after.monthly_stats,
                                              update_fee_settled_for_month, month_key)
               r == Process(Self, c)
           IN /\ SimulatedSum(c) = LedgerIntegerTotal(after.monthly_stats, month_key)
              /\ r.status = LIMIT_EXCEEDED <=> SimulatedSum(c) > FREE_PLAN_LIMIT
              /\ r.status = "ok" =>
                   /\ r.self = after
                   /\ Reply(Self, c).fees = reported
              /\ month_key \notin update_fee_settled_for_month =>
                   SimulatedSum(c) = reported.storage_fee + reported.update_fee
              /\ month_key \in update_fee_settled_for_month =>
                   /\ reported.update_fee = 0
                   /\ SimulatedSum(c) = reported.storage_fee
                                          + FullTrafficFee(after.monthly_stats, month_key))

\* on the free plan an operation is acceptable in a settled month whose
\* traffic the simulator prices and the reported fees do not, and another
\* in a month that is not settled
C18_Witness ==
  /\ is_free_plan
  /\ \E c \in MutatingCommands :
       /\ Process(Self, c).status = "ok"
       /\ GetMonthKey(c.timestamp) \in update_fee_settled_for_month
       /\ SimulatedSum(c) > Reply(Self, c).fees.storage_fee + Reply(Self, c).fees.update_fee
  /\ \E c \in MutatingCommands :
       /\ Process(Self, c).status = "ok"
       /\ GetMonthKey(c.timestamp) \notin update_fee_settled_for_month
       /\ SimulatedSum(c) > 0

----------------------------------------------------------------------------
(* C19: a call of the limit simulator, whatever it returns, leaves the     *)
(* real ledger as it was: the same (month, unit) aggregates with the same  *)
(* max_size and update_kb_sum, and the same files and occupancy.           *)
(*                                                                         *)
(* A month of the ledger is a defaultdict: an aggregate that was never     *)
(* written is absent and reads as zero, which is how the rows of           *)
(* monthly_stats above stand for it.  The aggregates that are present are  *)
(* followed here for a month the handler has just created.                 *)

\* the units _ensure_month_init creates an aggregate for in a new month:
\* the keys of last_month_eom_storage_sizes, which are all the units once
\* handle_calc has taken a snapshot and none before
SeededUnits(self) ==
  IF DOMAIN self.calc_reported_sizes_snapshot = {} THEN {} ELSE UnitNames

\* the units whose aggregate the simulator reads with current_month_data[s_name]
SimulatorReads(free) ==
  IF free THEN {s \in UnitNames : STORAGE_UNITS[s].is_free_plan_allowed} ELSE {}

\* the units that have an aggregate in the month after the simulator ran:
\* reading an absent one inserts it, with max_size = update_kb_sum = 0
PresentAfterSimulator(free, present) == present \cup SimulatorReads(free)

C19_SimulatorLeavesLedger ==
  \A c \in MutatingCommands :
    (Validated(c) /\ GetMonthKey(c.timestamp) \notin DOMAIN monthly_stats) =>
      PresentAfterSimulator(is_free_plan, SeededUnits(Self)) = SeededUnits(Self)

----------------------------------------------------------------------------
(* C20: on the free plan every accepted upload, delete or update returns   *)
(* storage_fee + update_fee <= 1000 and usage_fee = 0, whatever came       *)
(* before it.                                                              *)

C20_FreePlanFeesWithinLimit ==
  [](is_free_plan =>
       \A c \in MutatingCommands :
         LET line == Reply(Self, c)
         IN line.status = "ok" =>
              /\ line.fees.storage_fee + line.fees.update_fee <= FREE_PLAN_LIMIT
              /\ line.fees.usage_fee = 0)

\* after an accepted operation the free plan accepts another whose returned
\* fees are exactly at the limit
C20_Witness ==
  /\ is_free_plan
  /\ nacc > 0
  /\ \E c \in MutatingCommands :
       LET line == Reply(Self, c)
       IN /\ line.status = "ok"
          /\ line.fees.storage_fee + line.fees.update_fee = FREE_PLAN_LIMIT
          /\ line.fees.update_fee > 0

----------------------------------------------------------------------------
(* C21: on the free plan, in every reachable state and for every month of  *)
(* the ledger (also a month whose max_size was seeded from the sizes       *)
(* closeMonth recorded), the integer storage fees of max_size plus the     *)
(* integer update fees of update_kb_sum of the free-plan units are at most *)
(* 1000; so closeMonth never reports storage_fee + update_fee above 1000   *)
(* or a positive usage_fee, and no month exists on which every operation   *)
(* is rejected for the limit.                                              *)

C21_MonthsWithinLimit ==
  is_free_plan =>
    /\ \A month_key \in DOMAIN monthly_stats :
         LedgerIntegerTotal(monthly_stats, month_key) <= FREE_PLAN_LIMIT
    /\ \A ts \in SeedTimestamps :
         Stamp(ts) >= clock =>
           LET line == CalcReturn(Self, ts)
           IN /\ line.fees.storage_fee + line.fees.update_fee <= FREE_PLAN_LIMIT
              /\ line.fees.usage_fee = 0
    /\ \A c \in SeedCommands :
         (/\ c.op # "CALC"
          /\ Stamp(c.timestamp) >= clock
          /\ CommandMonth(c) \notin DOMAIN monthly_stats
          /\ Validated(c))
           => \E d \in SeedCommands :
                /\ d.op # "CALC"
                /\ CommandMonth(d) = CommandMonth(c)
                /\ Process(Self, d).status = "ok"

====
